---- MODULE Spec2Model ----
(***************************************************************************)
(* Model of bankanalyzer/core.py: BankAccountBalance,                      *)
(* BankAccountTransaction and BankAccountRecord with add_transaction,      *)
(* sort_transactions, balance_at, get_balances, merge,                     *)
(* get_average_transaction, merge_account_records and                      *)
(* stack_plot_account_records.                                             *)
(*                                                                         *)
(* Dates are day ordinals (datetime.date + TimeDelta(days=1) is d + 1).    *)
(* Amounts are integers; a quotient is kept exact as [num, den].           *)
(* Record objects live in the heap `records`; lists of records hold        *)
(* indices into it, so in-place mutation is seen through every list.       *)
(***************************************************************************)
EXTENDS Integers, Sequences, FiniteSets

VARIABLES
    records,       \* heap of BankAccountRecord objects, a sequence
    last,          \* the most recent call: [op, self, other]
    stderr,        \* what the most recent call wrote to sys.stderr
    balances,      \* list returned by the most recent call if it was get_balances
    output,        \* list returned by merge_account_records (indices into records)
    accounts,      \* the list handed to stack_plot_account_records (indices)
    short_period,  \* the flag handed to stack_plot_account_records
    dates,         \* stack_plot_account_records: local `dates`
    data,          \* stack_plot_account_records: local `data`, <<name, series>> in insertion order
    sum_line,      \* stack_plot_account_records: local `sum_line`
    average_line   \* stack_plot_account_records: local `average_line`

vars == <<records, last, stderr, balances, output, accounts, short_period,
          dates, data, sum_line, average_line>>

stackVars == <<accounts, short_period, dates, data, sum_line, average_line>>

(***************************************************************************)
(* Bounds of the record-level model.                                       *)
(***************************************************************************)
MaxDate == 2
MaxTx == 2

Dates == 0..MaxDate

\* The amount of the transactions of a day: distinct powers of two with
\* alternating sign, so that every signed sum names the days it was taken over.
AmountOn(d) == IF d % 2 = 0 THEN 2 ^ d ELSE 0 - 2 ^ d

None == <<>>

(***************************************************************************)
(* Data classes.                                                           *)
(***************************************************************************)
BankAccountBalance(date, amount) == [date |-> date, amount |-> amount]

BankAccountTransaction(date, type, amount, memo) ==
    [date |-> date, type |-> type, amount |-> amount, memo |-> memo]

BankAccountRecord(name, account_id, reference_balance, currency, start_time, end_time, transactions) ==
    [name |-> name, account_id |-> account_id, reference_balance |-> reference_balance,
     transactions |-> IF transactions = None THEN <<>> ELSE transactions,
     currency |-> currency, start_time |-> start_time, end_time |-> end_time]

Transactions == {BankAccountTransaction(d, "xfer", AmountOn(d), "memo") : d \in Dates}

(***************************************************************************)
(* list.sort(key=date): a stable sort, as an insertion sort that puts each *)
(* element after every element whose key is not greater.                   *)
(***************************************************************************)
RECURSIVE InsertByDate(_, _)
InsertByDate(sorted, t) ==
    IF sorted = <<>> THEN <<t>>
    ELSE IF sorted[Len(sorted)].date <= t.date THEN Append(sorted, t)
    ELSE Append(InsertByDate(SubSeq(sorted, 1, Len(sorted) - 1), t), sorted[Len(sorted)])

RECURSIVE SortByDate(_, _)
SortByDate(txs, k) ==
    IF k = 0 THEN <<>> ELSE InsertByDate(SortByDate(txs, k - 1), txs[k])

sort_transactions_unsorted(self) == self

sort_transactions(self) ==
    [self EXCEPT !.transactions = SortByDate(self.transactions, Len(self.transactions))]

add_transaction(self, transaction) ==
    sort_transactions([self EXCEPT !.transactions = Append(self.transactions, transaction)])

(***************************************************************************)
(* balance_at: one scan of the transactions from the first, with the       *)
(* loop's continue / accumulate / break.                                   *)
(***************************************************************************)
RECURSIVE balance_at_backward_on_date(_, _, _, _)
balance_at_backward_on_date(self, date, k, amount) ==
    IF k > Len(self.transactions) THEN amount
    ELSE LET transaction == self.transactions[k] IN
         IF transaction.date < date
         THEN balance_at_backward_on_date(self, date, k + 1, amount)
         ELSE IF transaction.date <= self.reference_balance.date
         THEN balance_at_backward_on_date(self, date, k + 1, amount - transaction.amount)
         ELSE amount

RECURSIVE balance_at_backward(_, _, _, _)
balance_at_backward(self, date, k, amount) ==
    IF k > Len(self.transactions) THEN amount
    ELSE LET transaction == self.transactions[k] IN
         IF transaction.date <= date
         THEN balance_at_backward(self, date, k + 1, amount)
         ELSE IF transaction.date <= self.reference_balance.date
         THEN balance_at_backward(self, date, k + 1, amount - transaction.amount)
         ELSE amount

RECURSIVE balance_at_forward_before_date(_, _, _, _)
balance_at_forward_before_date(self, date, k, amount) ==
    IF k > Len(self.transactions) THEN amount
    ELSE LET transaction == self.transactions[k] IN
         IF transaction.date <= self.reference_balance.date
         THEN balance_at_forward_before_date(self, date, k + 1, amount)
         ELSE IF transaction.date < date
         THEN balance_at_forward_before_date(self, date, k + 1, amount + transaction.amount)
         ELSE amount

RECURSIVE balance_at_forward(_, _, _, _)
balance_at_forward(self, date, k, amount) ==
    IF k > Len(self.transactions) THEN amount
    ELSE LET transaction == self.transactions[k] IN
         IF transaction.date <= self.reference_balance.date
         THEN balance_at_forward(self, date, k + 1, amount)
         ELSE IF transaction.date <= date
         THEN balance_at_forward(self, date, k + 1, amount + transaction.amount)
         ELSE amount

balance_at(self, date) ==
    IF date <= self.reference_balance.date
    THEN BankAccountBalance(date, balance_at_backward(self, date, 1, self.reference_balance.amount))
    ELSE BankAccountBalance(date, balance_at_forward(self, date, 1, self.reference_balance.amount))

RECURSIVE get_balances_loop(_, _, _)
get_balances_loop(self, date, stop) ==
    IF date <= stop
    THEN <<balance_at(self, date)>> \o get_balances_loop(self, date + 1, stop)
    ELSE <<>>

get_balances(self, time_span) ==
    LET span == IF time_span = None THEN <<self.start_time, self.end_time>> ELSE time_span
    IN  get_balances_loop(self, span[1], span[2])

(***************************************************************************)
(* merge: the early return on another account, then the append loop, the   *)
(* sort and the three updates.                                             *)
(***************************************************************************)
RECURSIVE merge_append_later_only(_, _, _)
merge_append_later_only(self, other, k) ==
    IF k = 0 THEN self.transactions
    ELSE LET transaction == other.transactions[k]
             before == merge_append_later_only(self, other, k - 1)
         IN  IF transaction.date > self.end_time
             THEN Append(before, transaction)
             ELSE before

RECURSIVE merge_append(_, _, _)
merge_append(self, other, k) ==
    IF k = 0 THEN self.transactions
    ELSE LET transaction == other.transactions[k]
             before == merge_append(self, other, k - 1)
         IN  IF transaction.date <= self.start_time \/ transaction.date > self.end_time
             THEN Append(before, transaction)
             ELSE before

merge_body(self, other) ==
    LET appended == sort_transactions(
                 [self EXCEPT !.transactions = merge_append(self, other, Len(other.transactions))])
             rebalanced ==
                 IF other.reference_balance.date > appended.reference_balance.date
                 THEN [appended EXCEPT !.reference_balance = other.reference_balance]
                 ELSE appended
             extended ==
                 IF other.end_time > rebalanced.end_time
                 THEN [rebalanced EXCEPT !.end_time = other.end_time]
                 ELSE rebalanced
         IN  [self |-> IF other.start_time < extended.start_time
                       THEN [extended EXCEPT !.start_time = other.start_time]
                       ELSE extended,
              stderr |-> <<>>]

merge_any_account(self, other) == merge_body(self, other)

merge(self, other) ==
    IF self.account_id # other.account_id
    THEN [self |-> self,
          stderr |-> <<<<"Cannot merge bank accounts", self.account_id, other.account_id>>>>]
    ELSE merge_body(self, other)

(***************************************************************************)
(* Record-level specification: two records built by the constructor with   *)
(* no transactions, then any sequence of add_transaction, merge and        *)
(* get_balances calls.                                                     *)
(***************************************************************************)
Init ==
    /\ \E d1 \in Dates, d2 \in {0, MaxDate}, id2 \in {"a1", "a2"}, s2 \in {0, 1} :
        records = << BankAccountRecord("n1", "a1", BankAccountBalance(d1, 10), "EUR", 0, 1, None),
                     BankAccountRecord("n1", id2, BankAccountBalance(d2, 20), "EUR", s2, MaxDate, None) >>
    /\ last = [op |-> "init", self |-> 0, other |-> 0]
    /\ stderr = <<>>
    /\ balances = <<>>
    /\ output = <<>>
    /\ accounts = <<>>
    /\ short_period = FALSE
    /\ dates = <<>>
    /\ data = <<>>
    /\ sum_line = <<>>
    /\ average_line = <<>>

\* The call is made while the record holds fewer than MaxTx transactions.
CallAddTransaction(i, transaction) ==
    /\ Len(records[i].transactions) < MaxTx
    /\ records' = [records EXCEPT ![i] = add_transaction(@, transaction)]
    /\ last' = [op |-> "add_transaction", self |-> i, other |-> 0]
    /\ stderr' = <<>>
    /\ balances' = <<>>
    /\ UNCHANGED <<output, stackVars>>

\* The call is made while the merged list stays within MaxTx + 1 entries.
CallMerge(i, j) ==
    \E result \in {merge(records[i], records[j])} :
    /\ i # j
    /\ Len(result.self.transactions) <= MaxTx + 1
    /\ records' = [records EXCEPT ![i] = result.self]
    /\ last' = [op |-> "merge", self |-> i, other |-> j]
    /\ stderr' = result.stderr
    /\ balances' = <<>>
    /\ UNCHANGED <<output, stackVars>>

CallGetBalances(i, time_span) ==
    /\ balances' = get_balances(records[i], time_span)
    /\ last' = [op |-> "get_balances", self |-> i, other |-> 0]
    /\ stderr' = <<>>
    /\ UNCHANGED <<records, output, stackVars>>

Next ==
    \/ \E i \in DOMAIN records, t \in Transactions : CallAddTransaction(i, t)
    \/ \E i \in DOMAIN records, j \in DOMAIN records : CallMerge(i, j)
    \/ \E i \in DOMAIN records, span \in {<<0, MaxDate>>, None} : CallGetBalances(i, span)

Spec == Init /\ [][Next]_vars

(***************************************************************************)
(* merge_account_records: for each record, the first accepted record of    *)
(* the same account_id and name absorbs it by merge (in place); a record   *)
(* that finds none is appended to the output.                              *)
(***************************************************************************)
RECURSIVE find_registered(_, _, _, _)
find_registered(heap, record, out, k) ==
    IF k > Len(out) THEN 0
    ELSE IF /\ heap[record].account_id = heap[out[k]].account_id
            /\ heap[record].name = heap[out[k]].name
         THEN out[k]
         ELSE find_registered(heap, record, out, k + 1)

RECURSIVE merge_account_records_loop(_, _, _)
merge_account_records_loop(heap, record, out) ==
    IF record > Len(heap) THEN [heap |-> heap, output |-> out]
    ELSE LET other == find_registered(heap, record, out, 1) IN
         IF other # 0
         THEN merge_account_records_loop(
                  [heap EXCEPT ![other] = merge(heap[other], heap[record]).self], record + 1, out)
         ELSE merge_account_records_loop(heap, record + 1, Append(out, record))

merge_account_records(heap) == merge_account_records_loop(heap, 1, <<>>)

(***************************************************************************)
(* Batch specification: a list of up to MaxRecords records, each with a    *)
(* window and at most one transaction, handed to merge_account_records.    *)
(***************************************************************************)
MaxRecords == 3

MergeWindows == {<<0, 1>>, <<1, 2>>, <<2, 3>>, <<0, 2>>}
MergeTransactions ==
    {<<>>} \cup {<<BankAccountTransaction(d, "xfer", AmountOn(d), "memo")>> : d \in 1..3}
MergeRecords(names) ==
    {BankAccountRecord(n, "a1", BankAccountBalance(w[2], 10), "EUR", w[1], w[2], txs) :
        n \in names, w \in MergeWindows, txs \in MergeTransactions}

InitMergeAll ==
    /\ \E n \in 1..MaxRecords :
        records \in {heap \in [1..n -> MergeRecords({"n1", "n2"})] : heap[1].name = "n1"}
    /\ last = [op |-> "init", self |-> 0, other |-> 0]
    /\ stderr = <<>>
    /\ balances = <<>>
    /\ output = <<>>
    /\ accounts = <<>>
    /\ short_period = FALSE
    /\ dates = <<>>
    /\ data = <<>>
    /\ sum_line = <<>>
    /\ average_line = <<>>

CallMergeAccountRecords ==
    \E result \in {merge_account_records(records)} :
    /\ last.op = "init"
    /\ records' = result.heap
    /\ output' = result.output
    /\ last' = [op |-> "merge_account_records", self |-> 0, other |-> 0]
    /\ stderr' = <<>>
    /\ balances' = <<>>
    /\ UNCHANGED stackVars

NextMergeAll == CallMergeAccountRecords

SpecMergeAll == InitMergeAll /\ [][NextMergeAll]_vars

(***************************************************************************)
(* get_average_transaction: the loop advances the date before it looks at  *)
(* the day's transactions; the quotient average / count is kept exact.     *)
(* count is at least 1 for every record with start_time <= end_time.       *)
(***************************************************************************)
abs(x) == IF x < 0 THEN 0 - x ELSE x

RECURSIVE SumAbs(_)
SumAbs(txs) == IF txs = <<>> THEN 0 ELSE abs(txs[1].amount) + SumAbs(Tail(txs))

RECURSIVE get_average_transaction_loop(_, _, _, _)
get_average_transaction_loop(self, date, average, count) ==
    IF date <= self.end_time
    THEN LET next == date + 1
             transactions_this_day == SelectSeq(self.transactions, LAMBDA t : t.date = next)
         IN  get_average_transaction_loop(self, next, average + SumAbs(transactions_this_day), count + 1)
    ELSE [num |-> average, den |-> count]

get_average_transaction(self) == get_average_transaction_loop(self, self.start_time, 0, 0)

(***************************************************************************)
(* stack_plot_account_records, step by step.                               *)
(***************************************************************************)
average_on_days == 31

min(a, b) == IF b < a THEN b ELSE a
max(a, b) == IF b > a THEN b ELSE a

\* Lines 252-256: the first account whose currency differs from accounts[0]'s, or 0.
RECURSIVE stack_currency_mismatch(_, _, _)
stack_currency_mismatch(heap, accs, k) ==
    IF k > Len(accs) THEN 0
    ELSE IF heap[accs[1]].currency # heap[accs[k]].currency THEN accs[k]
    ELSE stack_currency_mismatch(heap, accs, k + 1)

\* Lines 259-267.
RECURSIVE stack_time_span_loop_union(_, _, _, _, _, _)
stack_time_span_loop_union(heap, accs, short, k, start_time, end_time) ==
    IF k > Len(accs) THEN <<start_time, end_time>>
    ELSE LET account == heap[accs[k]] IN
         stack_time_span_loop_union(heap, accs, short, k + 1,
             min(start_time, account.start_time), max(end_time, account.end_time))

RECURSIVE stack_time_span_loop(_, _, _, _, _, _)
stack_time_span_loop(heap, accs, short, k, start_time, end_time) ==
    IF k > Len(accs) THEN <<start_time, end_time>>
    ELSE LET account == heap[accs[k]] IN
         IF short
         THEN stack_time_span_loop(heap, accs, short, k + 1,
                  max(start_time, account.start_time), min(end_time, account.end_time))
         ELSE stack_time_span_loop(heap, accs, short, k + 1,
                  min(start_time, account.start_time), max(end_time, account.end_time))

stack_time_span(heap, accs, short) ==
    stack_time_span_loop(heap, accs, short, 1, heap[accs[1]].start_time, heap[accs[1]].end_time)

\* Lines 269-273.
RECURSIVE stack_dates(_, _)
stack_dates(date, end_time) ==
    IF date <= end_time THEN <<date>> \o stack_dates(date + 1, end_time) ELSE <<>>

\* Line 276: a stable sort, ascending by the quotient num / den (den > 0).
KeyLessOrEqual(a, b) == a.num * b.den <= b.num * a.den

RECURSIVE InsertByKey(_, _, _)
InsertByKey(heap, sorted, account) ==
    IF sorted = <<>> THEN <<account>>
    ELSE IF KeyLessOrEqual(get_average_transaction(heap[sorted[Len(sorted)]]),
                           get_average_transaction(heap[account]))
         THEN Append(sorted, account)
         ELSE Append(InsertByKey(heap, SubSeq(sorted, 1, Len(sorted) - 1), account),
                     sorted[Len(sorted)])

RECURSIVE stack_sort(_, _, _)
stack_sort(heap, accs, k) ==
    IF k = 0 THEN <<>> ELSE InsertByKey(heap, stack_sort(heap, accs, k - 1), accs[k])

\* Lines 279-281: dict assignment keeps the place of a key it already holds.
DictSet(dict, key, value) ==
    IF \E k \in DOMAIN dict : dict[k][1] = key
    THEN [k \in DOMAIN dict |-> IF dict[k][1] = key THEN <<key, value>> ELSE dict[k]]
    ELSE Append(dict, <<key, value>>)

Amounts(bs) == [k \in DOMAIN bs |-> bs[k].amount]

RECURSIVE stack_data(_, _, _, _)
stack_data(heap, accs, span, k) ==
    IF k = 0 THEN <<>>
    ELSE DictSet(stack_data(heap, accs, span, k - 1), heap[accs[k]].name,
                 Amounts(get_balances(heap[accs[k]], span)))

\* Lines 283-287.
RECURSIVE SumColumn(_, _, _)
SumColumn(dict, k, upto) ==
    IF upto = 0 THEN 0 ELSE SumColumn(dict, k, upto - 1) + dict[upto][2][k]

stack_sum_line(ds, dict) == [k \in DOMAIN ds |-> SumColumn(dict, k, Len(dict))]

\* Lines 289-298; k and k2 count from 0 as in the code.
RECURSIVE SumFrom(_, _, _)
SumFrom(line, k2, k) ==
    IF k2 > k THEN [value |-> 0, count |-> 0]
    ELSE LET rest == SumFrom(line, k2 + 1, k)
         IN  [value |-> line[k2 + 1] + rest.value, count |-> 1 + rest.count]

stack_average_line_31_values(line) ==
    [p \in DOMAIN line |->
        LET k == p - 1
            total == SumFrom(line, max(0, k - average_on_days + 1), k)
        IN  [num |-> total.value, den |-> total.count]]

stack_average_line(line) ==
    [p \in DOMAIN line |->
        LET k == p - 1
            total == SumFrom(line, max(0, k - average_on_days), k)
        IN  [num |-> total.value, den |-> total.count]]

stack_plot_account_records(heap, accs, short) ==
    LET nothing == [accounts |-> accs, dates |-> <<>>, data |-> <<>>, sum_line |-> <<>>,
                    average_line |-> <<>>, stderr |-> <<>>]
    IN
    IF Len(accs) < 1 THEN nothing
    ELSE IF stack_currency_mismatch(heap, accs, 1) # 0
    THEN [nothing EXCEPT !.stderr =
             << <<"Cannot draw stack plot : not all accounts have the same currency,found",
                  heap[accs[1]].currency,
                  heap[stack_currency_mismatch(heap, accs, 1)].currency>> >>]
    ELSE LET span == stack_time_span(heap, accs, short)
             ds == stack_dates(span[1], span[2])
             sorted == stack_sort(heap, accs, Len(accs))
             dict == stack_data(heap, sorted, span, Len(sorted))
             line == stack_sum_line(ds, dict)
         IN  [accounts |-> sorted, dates |-> ds, data |-> dict, sum_line |-> line,
              average_line |-> stack_average_line(line), stderr |-> <<>>]

(***************************************************************************)
(* Composite specification: a list of up to MaxAccounts records handed to  *)
(* stack_plot_account_records with either value of short_period.           *)
(***************************************************************************)
MaxAccounts == 3

StackTransactions ==
    <<BankAccountTransaction(12, "xfer", 0 - 3, "memo"),
      BankAccountTransaction(21, "xfer", 5, "memo")>>
\* <<start_time, end_time, transactions>>: a January statement, one from
\* mid-January into February, a short one, and a late one that shares no day
\* with the short one, with or without the two transactions.
StackExtracts ==
    { <<1, 31, StackTransactions>>, <<25, 41, <<>>>>, <<10, 41, StackTransactions>>,
      <<5, 20, <<>>>>, <<5, 20, StackTransactions>> }
StackRecords(names, currencies) ==
    {BankAccountRecord(n, "a", BankAccountBalance(x[2], 100), c, x[1], x[2], x[3]) :
        n \in names, c \in currencies, x \in StackExtracts}
\* Every record of the list is another account.
AccountId(i) == <<"a1", "a2", "a3", "a4", "a5">>[i]

InitStack ==
    /\ \E n \in 0..MaxAccounts :
        /\ \E heap \in [1..n -> StackRecords({"n1", "n2"}, {"EUR", "USD"})] :
              /\ \A i \in 1..n : (i = 1 => heap[i].name = "n1")
              /\ \A i \in 1..n : (i < n => heap[i].currency = "EUR")
              /\ records = [i \in 1..n |-> [heap[i] EXCEPT !.account_id = AccountId(i)]]
        /\ accounts = [i \in 1..n |-> i]
    /\ short_period \in BOOLEAN
    /\ last = [op |-> "init", self |-> 0, other |-> 0]
    /\ stderr = <<>>
    /\ balances = <<>>
    /\ output = <<>>
    /\ dates = <<>>
    /\ data = <<>>
    /\ sum_line = <<>>
    /\ average_line = <<>>

CallStackPlotAccountRecords ==
    \E result \in {stack_plot_account_records(records, accounts, short_period)} :
    /\ last.op = "init"
    /\ accounts' = result.accounts
    /\ dates' = result.dates
    /\ data' = result.data
    /\ sum_line' = result.sum_line
    /\ average_line' = result.average_line
    /\ stderr' = result.stderr
    /\ last' = [op |-> "stack_plot_account_records", self |-> 0, other |-> 0]
    /\ UNCHANGED <<records, balances, output, short_period>>

NextStack == CallStackPlotAccountRecords

SpecStack == InitStack /\ [][NextStack]_vars

(***************************************************************************)
(* Vocabulary of the properties.                                           *)
(***************************************************************************)
RECURSIVE SumAmounts(_)
SumAmounts(txs) == IF txs = <<>> THEN 0 ELSE txs[1].amount + SumAmounts(Tail(txs))

DatedIn(txs, after, upto) == SelectSeq(txs, LAMBDA t : after < t.date /\ t.date <= upto)

Count(txs, t) == Cardinality({k \in DOMAIN txs : txs[k] = t})

IsSorted(txs) == \A k \in 1..(Len(txs) - 1) : txs[k].date <= txs[k + 1].date

OutsideWindow(self, txs) ==
    SelectSeq(txs, LAMBDA t : ~(self.start_time < t.date /\ t.date <= self.end_time))

C2_BalanceAtReference ==
    last.op = "get_balances" =>
        \A p \in DOMAIN balances :
            balances[p].date = records[last.self].reference_balance.date =>
                balances[p] = records[last.self].reference_balance

C2_Witness ==
    /\ last.op = "get_balances"
    /\ LET self == records[last.self]
           ref == self.reference_balance.date
       IN  /\ \E p \in DOMAIN balances : balances[p].date = ref
           /\ \E k \in DOMAIN self.transactions : self.transactions[k].date = ref
           /\ \E k \in DOMAIN self.transactions : self.transactions[k].date > ref
           /\ Len(self.transactions) > MaxTx

\* C3: merge with a record of another account_id writes an error and leaves
\* every record, the target's fields and transactions included, as it was.
C3_MergeOtherAccount ==
    [][\A i \in DOMAIN records, j \in DOMAIN records :
          (/\ last'.op = "merge" /\ last'.self = i /\ last'.other = j
           /\ records[i].account_id # records[j].account_id)
          => /\ records' = records
             /\ stderr' = <<<<"Cannot merge bank accounts",
                              records[i].account_id, records[j].account_id>>>>]_vars

C3_Witness ==
    /\ last.op = "merge"
    /\ stderr # <<>>
    /\ records[last.self].account_id # records[last.other].account_id
    /\ OutsideWindow(records[last.self], records[last.other].transactions) # <<>>
    /\ records[last.other].reference_balance.date > records[last.self].reference_balance.date
    /\ records[last.other].end_time > records[last.self].end_time

InWindow(self, t) == self.start_time < t.date /\ t.date <= self.end_time

HoldsOwnWindow(self) == \A k \in DOMAIN self.transactions : InWindow(self, self.transactions[k])

\* Windows (start_time, end_time] with no day in common.
NonOverlapping(a, b) == a.end_time <= b.start_time \/ b.end_time <= a.start_time

\* Windows with no day in common even when read as [start_time, end_time].
Apart(a, b) == a.end_time < b.start_time \/ b.end_time < a.start_time

SameIdentity(a, b) == a.account_id = b.account_id /\ a.name = b.name

\* C4, as stated: two records of one identity whose windows do not overlap
\* (here: not even as closed intervals) merge into one record holding as many
\* transactions as both inputs together.
C4_AsStated ==
    [][(/\ last'.op = "merge_account_records"
        /\ Len(records) = 2
        /\ SameIdentity(records[1], records[2])
        /\ Apart(records[1], records[2]))
       => /\ Len(output') = 1
          /\ Len(records'[output'[1]].transactions) =
                Len(records[1].transactions) + Len(records[2].transactions)]_vars

\* C4, amended: the same, for two records that each hold only transactions
\* dated inside their own window (start_time < date <= end_time).
C4_TwoRecordsCount ==
    [][(/\ last'.op = "merge_account_records"
        /\ Len(records) = 2
        /\ SameIdentity(records[1], records[2])
        /\ NonOverlapping(records[1], records[2])
        /\ HoldsOwnWindow(records[1]) /\ HoldsOwnWindow(records[2]))
       => /\ Len(output') = 1
          /\ Len(records'[output'[1]].transactions) =
                Len(records[1].transactions) + Len(records[2].transactions)]_vars

C4_Witness ==
    /\ last.op = "merge_account_records"
    /\ Len(records) = 2
    /\ output = <<1>>
    /\ SameIdentity(records[1], records[2])
    /\ Len(records[2].transactions) = 1
    /\ HoldsOwnWindow(records[2])
    /\ Len(records[1].transactions) = 2
    /\ records[1].transactions[1] = records[2].transactions[1]
    /\ ~InWindow(records[2], records[1].transactions[2])

\* C10: three or more records of one identity, windows pairwise
\* non-overlapping, each holding only transactions of its own window, merge
\* into one record that holds every input transaction exactly once, in any
\* input order.
C10_AllTransactionsOnce ==
    [][(/\ last'.op = "merge_account_records"
        /\ Len(records) >= 3
        /\ \A i \in DOMAIN records, j \in DOMAIN records :
              /\ SameIdentity(records[i], records[j])
              /\ i # j => NonOverlapping(records[i], records[j])
        /\ \A i \in DOMAIN records : HoldsOwnWindow(records[i]))
       => /\ Len(output') = 1
          /\ \A d \in 0..3 :
                Cardinality({k \in DOMAIN records'[output'[1]].transactions :
                                records'[output'[1]].transactions[k].date = d})
                = Cardinality({i \in DOMAIN records :
                                \E k \in DOMAIN records[i].transactions :
                                    records[i].transactions[k].date = d})]_vars

Stacked == last.op = "stack_plot_account_records" /\ accounts # <<>> /\ stderr = <<>>

MaxOf(S) == CHOOSE x \in S : \A y \in S : y <= x
MinOf(S) == CHOOSE x \in S : \A y \in S : x <= y

StartTimes == {records[i].start_time : i \in DOMAIN records}
EndTimes == {records[i].end_time : i \in DOMAIN records}

Days(from, upto) == [k \in 1..(IF upto < from THEN 0 ELSE upto - from + 1) |-> from + k - 1]

\* C5: the date sequence of a stack is every day of [max start_time,
\* min end_time] with short_period and of [min start_time, max end_time]
\* without it; the windows [1,31], [10,41], [5,20] (Jan 1 is day 1) give
\* [10,20] and [1,41].
C5_CombinedWindow ==
    Stacked =>
        /\ short_period => dates = Days(MaxOf(StartTimes), MinOf(EndTimes))
        /\ ~short_period => dates = Days(MinOf(StartTimes), MaxOf(EndTimes))
        /\ {<<records[i].start_time, records[i].end_time>> : i \in DOMAIN records}
              = {<<1, 31>>, <<10, 41>>, <<5, 20>>}
           => dates = IF short_period THEN Days(10, 20) ELSE Days(1, 41)

C5_Witness ==
    /\ Stacked
    /\ short_period
    /\ Len(records) = 3
    /\ <<records[1].start_time, records[1].end_time>> = <<1, 31>>
    /\ <<records[2].start_time, records[2].end_time>> = <<10, 41>>
    /\ <<records[3].start_time, records[3].end_time>> = <<5, 20>>
    /\ dates = Days(10, 20)

RECURSIVE SumBalances(_, _)
SumBalances(k, date) ==
    IF k = 0 THEN 0 ELSE SumBalances(k - 1, date) + balance_at(records[k], date).amount

\* C6: at every date of the timeline the sum line is the sum of
\* balance_at(date).amount over all the records handed in, each counted once.
C6_SumLine ==
    Stacked =>
        /\ Len(sum_line) = Len(dates)
        /\ \A k \in DOMAIN dates : sum_line[k] = SumBalances(Len(records), dates[k])

WindowVolume(self) == SumAbs(SelectSeq(self.transactions, LAMBDA t : InWindow(self, t)))
WindowDays(self) == self.end_time - self.start_time

\* C7: the records come out ascending by a key that is the sum of |amount|
\* over the transactions dated in (start_time, end_time] divided by the
\* number of days of that window; a transaction outside it adds nothing.
C7_SortKey ==
    Stacked =>
        /\ \A i \in DOMAIN records :
              LET key == get_average_transaction(records[i])
              IN  key.num * WindowDays(records[i]) = WindowVolume(records[i]) * key.den
        /\ \A p \in 1..(Len(accounts) - 1) :
              WindowVolume(records[accounts[p]]) * WindowDays(records[accounts[p + 1]])
                <= WindowVolume(records[accounts[p + 1]]) * WindowDays(records[accounts[p]])

RECURSIVE SumRange(_, _, _)
SumRange(line, lo, hi) == IF hi < lo THEN 0 ELSE SumRange(line, lo, hi - 1) + line[hi + 1]

\* C8: the trend line has one value per sum-line index; at index k (from
\* 0) it is the mean of the sum line over max(0, k-31)..k: the sum line's
\* own value at index 0, the mean of the 32 values at 9..40 at index 40.
C8_TrendLine ==
    Stacked =>
        /\ Len(average_line) = Len(sum_line)
        /\ \A k \in 0..(Len(sum_line) - 1) :
              LET lo == IF k - 31 > 0 THEN k - 31 ELSE 0
              IN  /\ average_line[k + 1].den = k - lo + 1
                  /\ average_line[k + 1].num = SumRange(sum_line, lo, k)
        /\ Len(sum_line) > 0 => average_line[1] = [num |-> sum_line[1], den |-> 1]
        /\ Len(sum_line) > 40 =>
              average_line[41] = [num |-> SumRange(sum_line, 9, 40), den |-> 32]

C8_Witness ==
    /\ Stacked
    /\ Len(sum_line) > 40
    /\ average_line[41].den = 32
    /\ \E k \in 10..40 : sum_line[k] # sum_line[k + 1]
    /\ average_line[41].num # 32 * sum_line[41]

\* C9: add_transaction and a merge of the same account leave the target's
\* transactions sorted ascending by date, with every transaction it held
\* still there as often as before, plus exactly what the call inserted.
C9_SortedNothingLost ==
    [][\A i \in DOMAIN records :
          LET old == records[i].transactions
              new == records'[i].transactions
          IN  /\ (last'.op = "add_transaction" /\ last'.self = i) =>
                    /\ IsSorted(new)
                    /\ \E t \in Transactions : \A u \in Transactions :
                           Count(new, u) = Count(old, u) + (IF u = t THEN 1 ELSE 0)
              /\ (/\ last'.op = "merge" /\ last'.self = i
                  /\ records[i].account_id = records[last'.other].account_id) =>
                    /\ IsSorted(new)
                    /\ \A u \in Transactions :
                           Count(new, u) = Count(old, u)
                             + Count(OutsideWindow(records[i], records[last'.other].transactions), u)]_vars

C9_Witness ==
    /\ last.op = "merge"
    /\ stderr = <<>>
    /\ LET txs == records[last.self].transactions
       IN  /\ Len(txs) > MaxTx
           /\ \E k \in 1..(Len(txs) - 1) : txs[k].date < txs[k + 1].date
           /\ \E k \in 1..(Len(txs) - 1) : txs[k] = txs[k + 1]

====
